---------------------------- MODULE Spec2Model ----------------------------
(***************************************************************************)
(* Model of the line-preview-markdown extension (src/src/extension.ts):    *)
(* the text pipeline (getParagraphRange, stripLineSyntax, truncate,        *)
(* renderInlineMarkdownToText, renderInlineMarkdownToHtml, escapeHtml) and *)
(* the PreviewController that schedules and runs renders.                  *)
(*                                                                         *)
(* A JavaScript string is modelled as a sequence of one-character strings, *)
(* so that slicing, trimming and the regular-expression replacements are   *)
(* computed character by character as the code computes them.              *)
(***************************************************************************)
EXTENDS Integers, Sequences, FiniteSets, TLC

VARIABLES
    line,          \* stripLineSyntax: the raw line handed to it
    stripped,      \* stripLineSyntax: its result (Unset before the call)
    restripped,    \* stripLineSyntax applied to its own result (Unset before)
    text,          \* truncate: the text handed to it
    maxLength,     \* truncate: the maxLength handed to it
    truncated,     \* truncate: its result (Unset before the call)
    segs,          \* inline renderers: the input as typed, piece by piece
    plainOut,      \* renderInlineMarkdownToText(Flatten(segs)) (Unset before)
    htmlOut,       \* renderInlineMarkdownToHtml(Flatten(segs)) (Unset before)
    document,      \* editor.document: its lines, line 0 first
    activeLine,    \* editor.selection.active.line (0-based)
    config,        \* PreviewController.config
    span,          \* the lines buildPreviewSource reads (NoSpan before the call)
    editorKind,    \* vscode.window.activeTextEditor: none, a markdown document
                   \* that is not excluded, or any other document
    renderTimer,   \* PreviewController.renderTimer (0: undefined)
    timers,        \* the host's pending setTimeout timers, by id
    nextTimer,     \* the id the next setTimeout returns
    disposed,      \* dispose() has run: the event listeners are gone
    decorations,   \* the list last handed to editor.setDecorations
    panelContent,  \* PreviewPanelProvider.lastContent
    lastTrigger,   \* the most recent scheduleRender call
    lastRender,    \* the render() call that has just returned, if any
    fired,         \* the timers whose callback has run
    thrown         \* an exception has left render()

stripVars == <<line, stripped, restripped>>
truncVars == <<text, maxLength, truncated>>
inlineVars == <<segs, plainOut, htmlOut>>
editorVars == <<document, activeLine, config>>
ctrlVars ==
    <<editorKind, renderTimer, timers, nextTimer, disposed, decorations,
      panelContent, lastTrigger, lastRender, fired, thrown>>
vars == <<stripVars, truncVars, inlineVars, editorVars, span, ctrlVars>>

\* The value of a result variable before the function has been applied: no
\* string of the model holds this element.
Unset == <<"unset">>

---------------------------------------------------------------------------
(* Bounds of the model *)

MaxLineLen == 5

MaxTextLen == 6

MaxMaxLength == 6

MaxSegs == 3

MaxHtmlSegs == 3

MaxLines == 4

MaxTimers == 3

---------------------------------------------------------------------------
(* Characters and strings *)

\* \s of the regular expressions and the whitespace of trim()/trimEnd()
IsSpace(c) == c \in {" ", "\t", "\n"}

\* \d of the ordered-list rule
IsDigit(c) == c \in {"0", "1", "2", "3", "4", "5", "6", "7", "8", "9"}

\* The grave accent that delimits inline code: the one character of the model
\* that a string literal of this language cannot hold, so it gets a name.
Backtick == "grave"

\* [-*+] of the unordered-list rule
IsBullet(c) == c \in {"-", "*", "+"}

\* String.prototype.slice(from) for 1-based from: the suffix starting at from
DropTo(s, from) == IF from > Len(s) THEN <<>> ELSE SubSeq(s, from, Len(s))

\* String.prototype.slice(0, n) for n >= 0
Slice0(s, n) == IF n >= Len(s) THEN s ELSE SubSeq(s, 1, n)

\* the first index >= i of s that holds no whitespace (Len(s) + 1 if none)
RECURSIVE SkipSpace(_, _)
SkipSpace(s, i) ==
    IF i <= Len(s) /\ IsSpace(s[i]) THEN SkipSpace(s, i + 1) ELSE i

\* the first index >= i of s that holds no digit
RECURSIVE SkipDigits(_, _)
SkipDigits(s, i) ==
    IF i <= Len(s) /\ IsDigit(s[i]) THEN SkipDigits(s, i + 1) ELSE i

\* the first index >= i of s that holds no '#'
RECURSIVE SkipHashes(_, _)
SkipHashes(s, i) ==
    IF i <= Len(s) /\ s[i] = "#" THEN SkipHashes(s, i + 1) ELSE i

\* String.prototype.trimEnd()
RECURSIVE TrimEnd(_)
TrimEnd(s) ==
    IF s # <<>> /\ IsSpace(s[Len(s)]) THEN TrimEnd(SubSeq(s, 1, Len(s) - 1)) ELSE s

\* String.prototype.trim()
Trim(s) == TrimEnd(DropTo(s, SkipSpace(s, 1)))

\* whether s holds the characters of pat from index i on
HasAt(s, i, pat) ==
    /\ i >= 1
    /\ i + Len(pat) - 1 <= Len(s)
    /\ \A k \in 1..Len(pat) : s[i + k - 1] = pat[k]

---------------------------------------------------------------------------
(* Block Stripper: stripLineSyntax *)

\* /^#{1,6}\s+/ matches s: one to six '#', then whitespace
HeadingMatches(s) ==
    LET h == SkipHashes(s, 1)
    IN  h - 1 >= 1 /\ h - 1 <= 6 /\ SkipSpace(s, h) > h

\* /^>\s?/ matches s: a '>'
QuoteMatches(s) == s # <<>> /\ s[1] = ">"

\* /^(\d+\.)\s+/ matches s: digits, a dot, then whitespace
OrderedMatches(s) ==
    LET d == SkipDigits(s, 1)
    IN  d > 1 /\ d <= Len(s) /\ s[d] = "." /\ SkipSpace(s, d + 1) > d + 1

\* /^[-*+]\s+/ matches s: one bullet character, then whitespace
BulletMatches(s) == s # <<>> /\ IsBullet(s[1]) /\ SkipSpace(s, 2) > 2

\* text.replace(/^#{1,6}\s+/, ""): the hashes and all the whitespace after them
StripHeading(s) ==
    IF HeadingMatches(s) THEN DropTo(s, SkipSpace(s, SkipHashes(s, 1))) ELSE s

\* text.replace(/^>\s?/, ""): the '>' and at most one whitespace character
StripQuote(s) ==
    IF QuoteMatches(s)
    THEN IF Len(s) >= 2 /\ IsSpace(s[2]) THEN DropTo(s, 3) ELSE DropTo(s, 2)
    ELSE s

\* text.replace(/^(\d+\.)\s+/, ""): the digits, the dot and the whitespace
StripOrdered(s) ==
    IF OrderedMatches(s) THEN DropTo(s, SkipSpace(s, SkipDigits(s, 1) + 1)) ELSE s

\* a bullet rule that does not ask for whitespace after the bullet: /^[-*+]\s*/
StripBulletLoose(s) ==
    IF s # <<>> /\ IsBullet(s[1]) THEN DropTo(s, SkipSpace(s, 2)) ELSE s

\* text.replace(/^[-*+]\s+/, ""): the bullet and the whitespace after it
StripBullet(s) ==
    IF BulletMatches(s) THEN DropTo(s, SkipSpace(s, 2)) ELSE s

\* a stripper that re-applies the heading rule after the blockquote rule
stripLineSyntaxReapplied(l) ==
    StripBullet(StripOrdered(StripHeading(StripQuote(StripHeading(Trim(l))))))

stripLineSyntax(l) ==
    StripBullet(StripOrdered(StripQuote(StripHeading(Trim(l)))))

---------------------------------------------------------------------------
(* Truncator: truncate *)

\* a truncator that appends the ellipsis to the first maxLength characters
truncateLong(t, m) ==
    IF m <= 0 THEN <<>>
    ELSE IF Len(t) <= m THEN t
    ELSE IF m <= 3 THEN Slice0(t, m)
    ELSE TrimEnd(Slice0(t, m)) \o <<".", ".", ".">>

truncate(t, m) ==
    IF m <= 0 THEN <<>>
    ELSE IF Len(t) <= m THEN t
    ELSE IF m <= 3 THEN Slice0(t, m)
    ELSE TrimEnd(Slice0(t, m - 3)) \o <<".", ".", ".">>

---------------------------------------------------------------------------
(* Span Selector: getParagraphRange and the lines buildPreviewSource reads *)

\* document.lineAt(i).text for a 0-based line index i
lineAt(doc, i) == doc[i + 1]

\* TextLine.isEmptyOrWhitespace
isEmptyOrWhitespace(l) == \A k \in 1..Len(l) : IsSpace(l[k])

\* while (start > 0 && !document.lineAt(start - 1).isEmptyOrWhitespace) start -= 1
RECURSIVE ExpandStart(_, _)
ExpandStart(doc, start) ==
    IF start > 0 /\ ~isEmptyOrWhitespace(lineAt(doc, start - 1))
    THEN ExpandStart(doc, start - 1)
    ELSE start

\* while (end < document.lineCount - 1 && !document.lineAt(end + 1).isEmptyOrWhitespace) end += 1
RECURSIVE ExpandEnd(_, _)
ExpandEnd(doc, end) ==
    IF end < Len(doc) - 1 /\ ~isEmptyOrWhitespace(lineAt(doc, end + 1))
    THEN ExpandEnd(doc, end + 1)
    ELSE end

\* a range that is expanded upwards by one line at most
getParagraphRangeOneUp(doc, l) ==
    [start |-> IF l > 0 /\ ~isEmptyOrWhitespace(lineAt(doc, l - 1)) THEN l - 1 ELSE l,
     end |-> ExpandEnd(doc, l)]

getParagraphRange(doc, l) ==
    [start |-> ExpandStart(doc, l), end |-> ExpandEnd(doc, l)]

\* the lines buildPreviewSource reads: the paragraph range in paragraph mode,
\* the active line alone otherwise
previewRange(doc, l, renderMode) ==
    IF renderMode = "paragraph"
    THEN getParagraphRange(doc, l)
    ELSE [start |-> l, end |-> l]

\* lines.join(" ") of the stripped lines start..end
RECURSIVE JoinStripped(_, _, _)
JoinStripped(doc, start, end) ==
    IF start > end THEN <<>>
    ELSE IF start = end THEN stripLineSyntax(lineAt(doc, start))
    ELSE stripLineSyntax(lineAt(doc, start)) \o <<" ">> \o JoinStripped(doc, start + 1, end)

\* the joined, stripped lines before truncation (combined / cleaned)
previewCombined(doc, l, renderMode) ==
    IF renderMode = "paragraph"
    THEN LET range == getParagraphRange(doc, l)
         IN  JoinStripped(doc, range.start, range.end)
    ELSE stripLineSyntax(lineAt(doc, l))

\* a buildPreviewSource that returns the joined text uncut
buildPreviewSourceUncut(doc, l, renderMode, maxPreviewLength) ==
    previewCombined(doc, l, renderMode)

buildPreviewSource(doc, l, renderMode, maxPreviewLength) ==
    truncate(previewCombined(doc, l, renderMode), maxPreviewLength)

---------------------------------------------------------------------------
(* Inline Renderer: renderInlineMarkdownToText, renderInlineMarkdownToHtml *)

\* the first index >= i of s that holds the character ex (Len(s) + 1 if none)
RECURSIVE SkipUntil(_, _, _)
SkipUntil(s, i, ex) ==
    IF i <= Len(s) /\ s[i] # ex THEN SkipUntil(s, i + 1, ex) ELSE i

\* A pattern  open ([^ex]{min,}) close  tried at index i of s, where close
\* begins with ex (or the pattern ends there): the group is the longest run
\* without ex, so the match is unique. The index where close begins, or 0.
CloseAt(s, i, open, ex, min, close) ==
    LET j == i + Len(open)
        k == SkipUntil(s, j, ex)
    IN  IF HasAt(s, i, open) /\ k - j >= min /\ HasAt(s, k, close) THEN k ELSE 0

\* s.replace(/open([^ex]+)close/g, pre $1 post) from index i on: leftmost
\* match first, the scan resumes after each match
RECURSIVE ReplaceSpans(_, _, _, _, _, _, _)
ReplaceSpans(s, i, open, ex, close, pre, post) ==
    IF i > Len(s) THEN <<>>
    ELSE LET k == CloseAt(s, i, open, ex, 1, close)
         IN  IF k > 0
             THEN pre \o SubSeq(s, i + Len(open), k - 1) \o post
                      \o ReplaceSpans(s, k + Len(close), open, ex, close, pre, post)
             ELSE <<s[i]>> \o ReplaceSpans(s, i + 1, open, ex, close, pre, post)

\* s.replace(/open([^\]]{min,})\]\([^)]+\)/g, pre $1 post) from index i on:
\* the image rule (open = "![", min = 0) and the link rule (open = "[", min = 1)
RECURSIVE ReplaceLinks(_, _, _, _, _, _)
ReplaceLinks(s, i, open, min, pre, post) ==
    IF i > Len(s) THEN <<>>
    ELSE LET k == CloseAt(s, i, open, "]", min, <<"]", "(">>)
             u == IF k > 0 THEN CloseAt(s, k + 2, <<>>, ")", 1, <<")">>) ELSE 0
         IN  IF u > 0
             THEN pre \o SubSeq(s, i + Len(open), k - 1) \o post
                      \o ReplaceLinks(s, u + 1, open, min, pre, post)
             ELSE <<s[i]>> \o ReplaceLinks(s, i + 1, open, min, pre, post)

\* s.replace(/\s+/g, " ") from index i on
RECURSIVE CollapseSpace(_, _)
CollapseSpace(s, i) ==
    IF i > Len(s) THEN <<>>
    ELSE IF IsSpace(s[i]) THEN <<" ">> \o CollapseSpace(s, SkipSpace(s, i))
    ELSE <<s[i]>> \o CollapseSpace(s, i + 1)

\* s.replace(/c/g, by) for a single character c
RECURSIVE ReplaceChar(_, _, _)
ReplaceChar(s, c, by) ==
    IF s = <<>> THEN <<>>
    ELSE (IF Head(s) = c THEN by ELSE <<Head(s)>>) \o ReplaceChar(Tail(s), c, by)

Amp == <<"&", "a", "m", "p", ";">>
Lt == <<"&", "l", "t", ";">>
Gt == <<"&", "g", "t", ";">>
Quot == <<"&", "q", "u", "o", "t", ";">>
Apos == <<"&", "#", "3", "9", ";">>

\* an escapeHtml that leaves '<' as it is
escapeHtmlNoLt(input) ==
    ReplaceChar(ReplaceChar(ReplaceChar(ReplaceChar(input,
        "&", Amp), ">", Gt), "\"", Quot), "'", Apos)

escapeHtml(input) ==
    ReplaceChar(ReplaceChar(ReplaceChar(ReplaceChar(ReplaceChar(input,
        "&", Amp), "<", Lt), ">", Gt), "\"", Quot), "'", Apos)

\* the rules of lines 314-321, whose replacement is the group alone
TextRules(t) ==
    LET r1 == ReplaceLinks(t, 1, <<"!", "[">>, 0, <<>>, <<>>)
        r2 == ReplaceLinks(r1, 1, <<"[">>, 1, <<>>, <<>>)
        r3 == ReplaceSpans(r2, 1, <<Backtick>>, Backtick, <<Backtick>>, <<>>, <<>>)
        r4 == ReplaceSpans(r3, 1, <<"*", "*">>, "*", <<"*", "*">>, <<>>, <<>>)
        r5 == ReplaceSpans(r4, 1, <<"_", "_">>, "_", <<"_", "_">>, <<>>, <<>>)
        r6 == ReplaceSpans(r5, 1, <<"*">>, "*", <<"*">>, <<>>, <<>>)
        r7 == ReplaceSpans(r6, 1, <<"_">>, "_", <<"_">>, <<>>, <<>>)
    IN  ReplaceSpans(r7, 1, <<"~", "~">>, "~", <<"~", "~">>, <<>>, <<>>)

\* a plain-text renderer without the two italic rules
renderInlineMarkdownToTextNoItalic(t) ==
    LET r1 == ReplaceLinks(t, 1, <<"!", "[">>, 0, <<>>, <<>>)
        r2 == ReplaceLinks(r1, 1, <<"[">>, 1, <<>>, <<>>)
        r3 == ReplaceSpans(r2, 1, <<Backtick>>, Backtick, <<Backtick>>, <<>>, <<>>)
        r4 == ReplaceSpans(r3, 1, <<"*", "*">>, "*", <<"*", "*">>, <<>>, <<>>)
        r5 == ReplaceSpans(r4, 1, <<"_", "_">>, "_", <<"_", "_">>, <<>>, <<>>)
        r8 == ReplaceSpans(r5, 1, <<"~", "~">>, "~", <<"~", "~">>, <<>>, <<>>)
    IN  Trim(CollapseSpace(r8, 1))

renderInlineMarkdownToText(t) == Trim(CollapseSpace(TextRules(t), 1))

SpanLinkOpen ==
    <<"<", "s", "p", "a", "n", " ", "c", "l", "a", "s", "s", "=", "\"",
      "l", "i", "n", "k", "\"", ">">>
SpanClose == <<"<", "/", "s", "p", "a", "n", ">">>
CodeOpen == <<"<", "c", "o", "d", "e", ">">>
CodeClose == <<"<", "/", "c", "o", "d", "e", ">">>
StrongOpen == <<"<", "s", "t", "r", "o", "n", "g", ">">>
StrongClose == <<"<", "/", "s", "t", "r", "o", "n", "g", ">">>
EmOpen == <<"<", "e", "m", ">">>
EmClose == <<"<", "/", "e", "m", ">">>
DelOpen == <<"<", "d", "e", "l", ">">>
DelClose == <<"<", "/", "d", "e", "l", ">">>

\* the rules of lines 328-338 on already escaped text
HtmlRules(e) ==
    LET r1 == ReplaceLinks(e, 1, <<"!", "[">>, 0, <<>>, <<>>)
        r2 == ReplaceLinks(r1, 1, <<"[">>, 1, SpanLinkOpen, SpanClose)
        r3 == ReplaceSpans(r2, 1, <<Backtick>>, Backtick, <<Backtick>>, CodeOpen, CodeClose)
        r4 == ReplaceSpans(r3, 1, <<"*", "*">>, "*", <<"*", "*">>, StrongOpen, StrongClose)
        r5 == ReplaceSpans(r4, 1, <<"_", "_">>, "_", <<"_", "_">>, StrongOpen, StrongClose)
        r6 == ReplaceSpans(r5, 1, <<"*">>, "*", <<"*">>, EmOpen, EmClose)
        r7 == ReplaceSpans(r6, 1, <<"_">>, "_", <<"_">>, EmOpen, EmClose)
    IN  ReplaceSpans(r7, 1, <<"~", "~">>, "~", <<"~", "~">>, DelOpen, DelClose)

renderInlineMarkdownToHtml(t) == Trim(CollapseSpace(HtmlRules(escapeHtml(t)), 1))

---------------------------------------------------------------------------
(* The pure functions applied to bounded inputs *)

\* the strings over the characters A of length at most n
Strs(A, n) == UNION {[1..k -> A] : k \in 0..n}

\* the text typed as the pieces p[1], p[2], ...
RECURSIVE Flatten(_)
Flatten(p) == IF p = <<>> THEN <<>> ELSE Head(p) \o Flatten(Tail(p))

\* readConfig() with no setting written: the defaults of lines 224-227
DefaultConfig == [enabled |-> TRUE, maxPreviewLength |-> 120, renderMode |-> "line"]

\* the value of span before buildPreviewSource has run
NoSpan == [start |-> -1, end |-> -1]

\* the value of lastRender when the last step was not a render() call
NoRender ==
    [by |-> "none", timer |-> 0, trigger |-> [immediate |-> FALSE, timer |-> 0],
     afterDispose |-> FALSE, outcome |-> "none", config |-> DefaultConfig,
     renderTimer |-> 0]

IdleStrip == line = <<>> /\ stripped = Unset /\ restripped = Unset
IdleTruncate == text = <<>> /\ maxLength = 0 /\ truncated = Unset
IdleInline == segs = <<>> /\ plainOut = Unset /\ htmlOut = Unset
IdleEditor == document = <<<<>>>> /\ activeLine = 0 /\ config = DefaultConfig
IdleSpan == span = NoSpan
IdleController ==
    /\ editorKind = "none"
    /\ renderTimer = 0
    /\ timers = {}
    /\ nextTimer = 1
    /\ disposed = FALSE
    /\ decorations = <<>>
    /\ panelContent = <<>>
    /\ lastTrigger = [immediate |-> FALSE, timer |-> 0]
    /\ lastRender = NoRender
    /\ fired = {}
    /\ thrown = FALSE

StripAlphabet == {"#", ">", "1", ".", "-", " ", "a"}

InitStrip ==
    /\ line \in Strs(StripAlphabet, MaxLineLen)
    /\ stripped = Unset
    /\ restripped = Unset
    /\ IdleTruncate /\ IdleInline /\ IdleEditor /\ IdleSpan /\ IdleController

\* buildPreviewSource hands one raw line to stripLineSyntax
StripLine ==
    /\ stripped = Unset
    /\ stripped' = stripLineSyntax(line)
    /\ UNCHANGED <<line, restripped, truncVars, inlineVars, editorVars, span, ctrlVars>>

\* the residual is handed to stripLineSyntax once more
StripAgain ==
    /\ stripped # Unset
    /\ restripped = Unset
    /\ restripped' = stripLineSyntax(stripped)
    /\ UNCHANGED <<line, stripped, truncVars, inlineVars, editorVars, span, ctrlVars>>

NextStrip == StripLine \/ StripAgain

SpecStrip == InitStrip /\ [][NextStrip]_vars

TruncateAlphabet == {"a", " "}

InitTruncate ==
    /\ text \in Strs(TruncateAlphabet, MaxTextLen)
    /\ maxLength \in (-1)..MaxMaxLength
    /\ truncated = Unset
    /\ IdleStrip /\ IdleInline /\ IdleEditor /\ IdleSpan /\ IdleController

\* buildPreviewSource hands the cleaned text to truncate
Truncate ==
    /\ truncated = Unset
    /\ truncated' = truncate(text, maxLength)
    /\ UNCHANGED <<text, maxLength, stripVars, inlineVars, editorVars, span, ctrlVars>>

NextTruncate == Truncate

SpecTruncate == InitTruncate /\ [][NextTruncate]_vars

\* characters that no rule of the renderers looks for
PlainPieces == {<<"a">>, <<" ">>, <<"!">>}

\* the characters the rules look for, each typed alone
MarkupPieces ==
    {<<"*">>, <<"_">>, <<"~">>, <<Backtick>>, <<"[">>, <<"]">>, <<"(">>, <<")">>}

\* well-formed single-level spans with plain content
SpanPieces ==
    {<<"*", "a", "*">>, <<"*", "*", "a", "*", "*">>,
     <<"_", "a", "_">>, <<"_", "_", "a", "_", "_">>,
     <<"~", "~", "a", "~", "~">>, <<Backtick, "a", Backtick>>,
     <<"[", "a", "]", "(", "a", ")">>, <<"!", "[", "a", "]", "(", "a", ")">>}

InitText ==
    /\ segs \in Strs(PlainPieces \cup MarkupPieces \cup SpanPieces, MaxSegs)
    /\ plainOut = Unset
    /\ htmlOut = Unset
    /\ IdleStrip /\ IdleTruncate /\ IdleEditor /\ IdleSpan /\ IdleController

\* render() line 175
RenderText ==
    /\ plainOut = Unset
    /\ plainOut' = renderInlineMarkdownToText(Flatten(segs))
    /\ UNCHANGED <<segs, htmlOut, stripVars, truncVars, editorVars, span, ctrlVars>>

NextText == RenderText

SpecText == InitText /\ [][NextText]_vars

\* the five characters escapeHtml rewrites
EscapedPieces == {<<"&">>, <<"<">>, <<">">>, <<"\"">>, <<"'">>}

\* spans whose content or url holds characters escapeHtml rewrites
HtmlSpanPieces ==
    {<<"*", "&", "*">>, <<"_", "_", "\"", "_", "_">>,
     <<"~", "~", "'", "~", "~">>, <<Backtick, "<", Backtick>>,
     <<"[", "<", "]", "(", "&", ")">>, <<"!", "[", ">", "]", "(", "a", ")">>}

HtmlMarkupPieces == {<<"*">>, <<"[">>}

InitHtml ==
    /\ segs \in Strs(EscapedPieces \cup {<<"a">>} \cup HtmlMarkupPieces
                        \cup HtmlSpanPieces, MaxHtmlSegs)
    /\ plainOut = Unset
    /\ htmlOut = Unset
    /\ IdleStrip /\ IdleTruncate /\ IdleEditor /\ IdleSpan /\ IdleController

\* render() line 176
RenderHtml ==
    /\ htmlOut = Unset
    /\ htmlOut' = renderInlineMarkdownToHtml(Flatten(segs))
    /\ UNCHANGED <<segs, plainOut, stripVars, truncVars, editorVars, span, ctrlVars>>

NextHtml == RenderHtml

SpecHtml == InitHtml /\ [][NextHtml]_vars

\* the lines a document of the span checks is made of: empty, whitespace
\* only, text
SpanLines == {<<>>, <<" ">>, <<"a">>}

\* the non-empty documents of at most n lines
Documents(n) == UNION {[1..k -> SpanLines] : k \in 1..n}

InitSpan ==
    /\ document \in Documents(MaxLines)
    /\ activeLine \in 0..(Len(document) - 1)
    /\ config \in [enabled : {TRUE}, maxPreviewLength : {120},
                   renderMode : {"line", "paragraph"}]
    /\ span = NoSpan
    /\ IdleStrip /\ IdleTruncate /\ IdleInline /\ IdleController

\* buildPreviewSource lines 264-279: the lines it reads
SelectSpan ==
    /\ span = NoSpan
    /\ span' = previewRange(document, activeLine, config.renderMode)
    /\ UNCHANGED <<stripVars, truncVars, inlineVars, editorVars, ctrlVars>>

NextSpan == SelectSpan

SpecSpan == InitSpan /\ [][NextSpan]_vars

---------------------------------------------------------------------------
(* PreviewController: scheduleRender, clearRenderTimer, render and the     *)
(* handlers that call them                                                 *)

\* line 0 "# *a*bc" and line 1 "x": one paragraph
DocHeading == << <<"#", " ", "*", "a", "*", "b", "c">>, <<"x">> >>

\* line 0 "<" and the blank line 1
DocAngle == << <<"<">>, <<>> >>

Docs == {DocHeading, DocAngle}

\* every document of Docs has this many lines: a cursor line stays valid when
\* the document is replaced
MinDocLines == Len(DocHeading)

\* what activeTextEditor can be: undefined, a markdown document whose
\* language is not excluded, a document render() turns down at lines 154-157
EditorKinds == {"none", "markdown", "other"}

\* the settings readConfig() can return
Configs ==
    [enabled : BOOLEAN, maxPreviewLength : {4, 120}, renderMode : {"line", "paragraph"}]

\* where the try block of render() can be made to throw
Faults ==
    {"none", "buildPreviewSource", "renderInlineMarkdownToText",
     "renderInlineMarkdownToHtml", "lineAt"}

\* the decoration of lines 178-188: " -> " and the plain-text preview after
\* the active line
Decoration(l, previewText) ==
    [line |-> l, contentText |-> <<" ", "-", ">", " ">> \o previewText]

\* clearRenderTimer(): the pending timers it leaves
clearedTimers == IF renderTimer # 0 THEN timers \ {renderTimer} ELSE timers

\* a render() without its catch clause: the exception leaves it
renderNoCatch(cfg, fault) ==
    LET nothing == [decorations |-> <<>>, panelContent |-> <<>>, thrown |-> thrown]
        src == buildPreviewSource(document, activeLine, cfg.renderMode,
                                  cfg.maxPreviewLength)
    IN  IF editorKind = "none"
        THEN [nothing EXCEPT !.decorations = decorations] @@ [outcome |-> "no editor"]
        ELSE IF ~cfg.enabled THEN nothing @@ [outcome |-> "disabled"]
        ELSE IF editorKind = "other" THEN nothing @@ [outcome |-> "not markdown"]
        ELSE IF fault = "buildPreviewSource" \/ (src # <<>> /\ fault # "none")
        THEN [decorations |-> decorations, panelContent |-> panelContent,
              thrown |-> TRUE, outcome |-> "failed"]
        ELSE IF src = <<>> THEN nothing @@ [outcome |-> "empty"]
        ELSE [decorations |->
                  <<Decoration(activeLine, renderInlineMarkdownToText(src))>>,
              panelContent |-> renderInlineMarkdownToHtml(src),
              thrown |-> thrown, outcome |-> "shown"]

\* render() under the configuration cfg, with the try block throwing at the
\* stage fault when it gets there: what the editor and the panel are left with
render(cfg, fault) ==
    LET nothing == [decorations |-> <<>>, panelContent |-> <<>>, thrown |-> thrown]
        src == buildPreviewSource(document, activeLine, cfg.renderMode,
                                  cfg.maxPreviewLength)
    IN  IF editorKind = "none"
        THEN [nothing EXCEPT !.decorations = decorations] @@ [outcome |-> "no editor"]
        ELSE IF ~cfg.enabled THEN nothing @@ [outcome |-> "disabled"]
        ELSE IF editorKind = "other" THEN nothing @@ [outcome |-> "not markdown"]
        ELSE IF fault = "buildPreviewSource" \/ (src # <<>> /\ fault # "none")
        THEN nothing @@ [outcome |-> "failed"]
        ELSE IF src = <<>> THEN nothing @@ [outcome |-> "empty"]
        ELSE [decorations |->
                  <<Decoration(activeLine, renderInlineMarkdownToText(src))>>,
              panelContent |-> renderInlineMarkdownToHtml(src),
              thrown |-> thrown, outcome |-> "shown"]

\* render() is called with this.config = cfg and this.renderTimer = handle:
\* the editor, the panel and the record of the call when it has returned
Rendered(by, timer, cfg, handle, fault) ==
    LET r == render(cfg, fault)
    IN  /\ decorations' = r.decorations
        /\ panelContent' = r.panelContent
        /\ thrown' = r.thrown
        /\ lastRender' =
               [by |-> by, timer |-> timer, trigger |-> lastTrigger,
                afterDispose |-> disposed, outcome |-> r.outcome,
                config |-> cfg, renderTimer |-> handle]

\* no render() call in this step
NotRendered ==
    /\ lastRender' = NoRender
    /\ UNCHANGED <<decorations, panelContent, thrown>>

\* a scheduleRender that does not clear the pending timer first
scheduleRenderNoClear(immediate, cfg, fault) ==
    IF immediate
    THEN /\ renderTimer' = renderTimer
         /\ timers' = timers
         /\ nextTimer' = nextTimer
         /\ lastTrigger' = [immediate |-> TRUE, timer |-> 0]
         /\ Rendered("immediate", 0, cfg, renderTimer, fault)
    ELSE /\ nextTimer <= MaxTimers
         /\ fault = "none"
         /\ renderTimer' = nextTimer
         /\ timers' = timers \cup {nextTimer}
         /\ nextTimer' = nextTimer + 1
         /\ lastTrigger' = [immediate |-> FALSE, timer |-> nextTimer]
         /\ NotRendered

\* scheduleRender(immediate): clearRenderTimer(), then render() at once or a
\* new timer that will call it
scheduleRender(immediate, cfg, fault) ==
    IF immediate
    THEN /\ renderTimer' = 0
         /\ timers' = clearedTimers
         /\ nextTimer' = nextTimer
         /\ lastTrigger' = [immediate |-> TRUE, timer |-> 0]
         /\ Rendered("immediate", 0, cfg, 0, fault)
    ELSE /\ nextTimer <= MaxTimers
         /\ fault = "none"
         /\ renderTimer' = nextTimer
         /\ timers' = clearedTimers \cup {nextTimer}
         /\ nextTimer' = nextTimer + 1
         /\ lastTrigger' = [immediate |-> FALSE, timer |-> nextTimer]
         /\ NotRendered

Init ==
    /\ config \in Configs
    /\ editorKind \in EditorKinds
    /\ document \in Docs
    /\ activeLine \in 0..(Len(document) - 1)
    /\ renderTimer = 0
    /\ timers = {}
    /\ nextTimer = 1
    /\ disposed = FALSE
    /\ decorations = <<>>
    /\ panelContent = <<>>
    /\ lastTrigger = [immediate |-> FALSE, timer |-> 0]
    /\ lastRender = NoRender
    /\ fired = {}
    /\ thrown = FALSE
    /\ IdleStrip /\ IdleTruncate /\ IdleInline /\ IdleSpan

\* onDidChangeActiveTextEditor: another editor, or none, has the focus
ChangeActiveTextEditor ==
    /\ ~disposed
    /\ \E k \in EditorKinds, d \in Docs, l \in 0..(MinDocLines - 1) :
           /\ <<k, d>> # <<editorKind, document>>
           /\ editorKind' = k
           /\ document' = d
           /\ activeLine' = l
    /\ scheduleRender(FALSE, config, "none")
    /\ UNCHANGED <<fired, config, disposed, stripVars, truncVars, inlineVars, span>>

\* onDidChangeTextEditorSelection: the cursor is on another line
ChangeTextEditorSelection ==
    /\ ~disposed
    /\ editorKind # "none"
    /\ \E l \in 0..(Len(document) - 1) : l # activeLine /\ activeLine' = l
    /\ scheduleRender(FALSE, config, "none")
    /\ UNCHANGED <<fired, config, document, editorKind, disposed,
                   stripVars, truncVars, inlineVars, span>>

\* onDidChangeTextDocument for the active editor's document
ChangeTextDocument ==
    /\ ~disposed
    /\ editorKind # "none"
    /\ \E d \in Docs : d # document /\ document' = d
    /\ scheduleRender(FALSE, config, "none")
    /\ UNCHANGED <<fired, config, activeLine, editorKind, disposed,
                   stripVars, truncVars, inlineVars, span>>

\* onDidChangeConfiguration -> reloadConfig(): the new settings, then an
\* immediate render
ChangeConfiguration ==
    /\ ~disposed
    /\ \E c \in Configs, fault \in Faults :
           c # config /\ config' = c /\ scheduleRender(TRUE, c, fault)
    /\ UNCHANGED <<fired, document, activeLine, editorKind, disposed,
                   stripVars, truncVars, inlineVars, span>>

\* refresh(): the refresh command, and the call that ends activate()
Refresh ==
    /\ \E fault \in Faults : scheduleRender(TRUE, config, fault)
    /\ UNCHANGED <<fired, config, document, activeLine, editorKind, disposed,
                   stripVars, truncVars, inlineVars, span>>

\* the host runs the callback of a pending timer: render()
TimerFires ==
    /\ \E id \in timers, fault \in Faults :
           /\ timers' = timers \ {id}
           /\ fired' = fired \cup {id}
           /\ Rendered("timer", id, config, renderTimer, fault)
    /\ UNCHANGED <<renderTimer, nextTimer, lastTrigger, config, document, activeLine,
                   editorKind, disposed, stripVars, truncVars, inlineVars, span>>

\* dispose(): clearRenderTimer(), then the listeners are disposed
Dispose ==
    /\ ~disposed
    /\ disposed' = TRUE
    /\ renderTimer' = 0
    /\ timers' = clearedTimers
    /\ NotRendered
    /\ UNCHANGED <<fired, nextTimer, lastTrigger, config, document, activeLine, editorKind,
                   stripVars, truncVars, inlineVars, span>>

Next ==
    \/ ChangeActiveTextEditor
    \/ ChangeTextEditorSelection
    \/ ChangeTextDocument
    \/ ChangeConfiguration
    \/ Refresh
    \/ TimerFires
    \/ Dispose

Spec == Init /\ [][Next]_vars

---------------------------------------------------------------------------
(* Properties of the span selection *)

Blank(i) == isEmptyOrWhitespace(lineAt(document, i))

\* C1 as stated: in paragraph mode a blank cursor line is selected alone,
\* whatever the lines next to it hold.
C1_BlankLineAlone ==
    (span # NoSpan /\ config.renderMode = "paragraph" /\ Blank(activeLine))
        => span = [start |-> activeLine, end |-> activeLine]

\* C6: 0 <= start <= cursorLine <= end <= lastLineIndex; line mode selects the
\* cursor line alone; paragraph mode on a non-blank cursor line selects the
\* maximal run of non-blank lines around it.
C6_SpanInvariant ==
    span # NoSpan =>
        /\ 0 <= span.start /\ span.start <= activeLine
        /\ activeLine <= span.end /\ span.end <= Len(document) - 1
        /\ config.renderMode = "line" =>
               span = [start |-> activeLine, end |-> activeLine]
        /\ (config.renderMode = "paragraph" /\ ~Blank(activeLine)) =>
               /\ \A i \in span.start..span.end : ~Blank(i)
               /\ span.start = 0 \/ Blank(span.start - 1)
               /\ span.end = Len(document) - 1 \/ Blank(span.end + 1)

\* C6 witness: paragraph mode selected a run of three lines or more that ends
\* at a blank line, from a cursor at the end of the run.
C6_Witness ==
    /\ span # NoSpan
    /\ config.renderMode = "paragraph"
    /\ ~Blank(activeLine)
    /\ span.end = activeLine
    /\ span.start + 2 <= span.end
    /\ span.end < Len(document) - 1

---------------------------------------------------------------------------
(* Properties of the controller *)

C8_FailureShowsNothing ==
    /\ ~thrown
    /\ lastRender.outcome = "failed" =>
           /\ decorations = <<>>
           /\ panelContent = <<>>
           /\ config = lastRender.config
           /\ renderTimer = lastRender.renderTimer

\* C8 witness: a timer-driven render failed while a timer handle was set.
C8_Witness ==
    /\ lastRender.outcome = "failed"
    /\ lastRender.by = "timer"
    /\ renderTimer # 0

\* C10: at most one render timer is pending, and it is the one renderTimer
\* holds; a timer-driven render belongs to the most recent scheduleRender
\* call, which was not immediate; none is pending or runs after dispose().
C10_OneTimer ==
    /\ Cardinality(timers) <= 1
    /\ timers \subseteq {renderTimer}
    /\ disposed => timers = {}
    /\ lastRender.by = "timer" =>
           /\ lastRender.trigger = [immediate |-> FALSE, timer |-> lastRender.timer]
           /\ ~lastRender.afterDispose

\* C10 witness: the second trigger's timer has just rendered, and the first
\* trigger's timer never did: it was superseded.
C10_Witness ==
    /\ lastRender.by = "timer"
    /\ lastRender.timer = 2
    /\ 1 \notin fired

---------------------------------------------------------------------------
(* Properties of the pure functions *)

\* C3: the result of truncate is never longer than a maxLength >= 0 (the trim
\* before the ellipsis may make it shorter), and is empty for maxLength <= 0.
C3_TruncateBounded ==
    truncated # Unset =>
        /\ maxLength >= 0 => Len(truncated) <= maxLength
        /\ maxLength <= 0 => truncated = <<>>

\* C3 witness: a text longer than a maxLength above 3 was cut, and the trim
\* left the result shorter than maxLength.
C3_Witness ==
    /\ truncated # Unset
    /\ maxLength > 3
    /\ Len(text) > maxLength
    /\ Len(truncated) < maxLength
    /\ HasAt(truncated, Len(truncated) - 2, <<".", ".", ".">>)

\* none of the four block-marker rules matches s
NoRuleMatches(s) ==
    ~HeadingMatches(s) /\ ~QuoteMatches(s) /\ ~OrderedMatches(s) /\ ~BulletMatches(s)

\* C7 as stated: once no rule matches the residual r = stripLineSyntax(s),
\* stripping r again returns r.
C7_Idempotent ==
    (restripped # Unset /\ NoRuleMatches(stripped)) => restripped = stripped

\* C7 amended: once no rule matches the residual r and r does not begin with
\* whitespace, stripping r again returns r.
C7_IdempotentNoLeadingSpace ==
    (/\ restripped # Unset
     /\ NoRuleMatches(stripped)
     /\ ~(stripped # <<>> /\ IsSpace(stripped[1])))
        => restripped = stripped

\* C7 witness: a marker was stripped, no rule matches the non-empty residual,
\* and the second strip returned it unchanged.
C7_Witness ==
    /\ restripped # Unset
    /\ stripped # <<>>
    /\ Len(stripped) < Len(Trim(line))
    /\ NoRuleMatches(stripped)
    /\ restripped = stripped

\* C9: the line is trimmed, then the rules run once each in the order heading,
\* blockquote, ordered list, unordered list, each on what the rules before it
\* left; a rule that ran is not run again after a later rule has stripped.
C9_RulesInOrderOnce ==
    LET t == Trim(line)
        h == StripHeading(t)
        q == StripQuote(t)
        o == StripOrdered(t)
    IN  stripped # Unset =>
            \* only a prefix of the trimmed line is removed
            /\ \E k \in 1..(Len(t) + 1) : stripped = DropTo(t, k)
            \* heading, then nothing else matches: the heading rule ran once
            /\ (HeadingMatches(t) /\ ~QuoteMatches(h) /\ ~OrderedMatches(h)
                    /\ ~BulletMatches(h)) => stripped = h
            \* blockquote first: exactly one marker goes, no heading rule after it
            /\ (QuoteMatches(t) /\ ~OrderedMatches(q) /\ ~BulletMatches(q))
                    => stripped = q
            \* ">>": exactly one '>' is lost
            /\ HasAt(t, 1, <<">", ">">>) => stripped = Tail(t)
            \* ordered marker first: only the unordered rule may follow it
            /\ (OrderedMatches(t) /\ ~BulletMatches(o)) => stripped = o
            \* unordered marker first: no rule follows it
            /\ BulletMatches(t) => stripped = StripBullet(t)
            \* the two examples
            /\ line = <<">", " ", "#", " ", "a">> => stripped = <<"#", " ", "a">>
            /\ line = <<">", ">", " ", "a">> => stripped = <<">", " ", "a">>

\* C9 witness: "> # a" was stripped to "# a".
C9_Witness ==
    /\ line = <<">", " ", "#", " ", "a">>
    /\ stripped = <<"#", " ", "a">>

\* the characters the inline rules treat as markup
ControlChars == {"*", "_", "~", Backtick}
BracketChars == {"[", "]", "(", ")"}

\* C5 as stated: the plain-text output never holds '*', '_', '~' or a grave
\* accent.
C5_NoControlChars ==
    plainOut # Unset =>
        \A i \in 1..Len(plainOut) : plainOut[i] \notin ControlChars

\* every piece of the input is plain text or a well-formed single-level span,
\* and no two spans touch: plain text stands between them
WellFormed(p) ==
    /\ \A i \in 1..Len(p) : p[i] \in PlainPieces \cup SpanPieces
    /\ \A i \in 1..(Len(p) - 1) : p[i] \in PlainPieces \/ p[i + 1] \in PlainPieces

\* C5 amended: when the input is made of plain text and of well-formed
\* single-level spans with plain content that do not touch one another, the
\* plain-text output holds no
\* '*', '_', '~', grave accent, bracket or parenthesis.
C5_NoControlCharsWellFormed ==
    (plainOut # Unset /\ WellFormed(segs)) =>
        \A i \in 1..Len(plainOut) :
            plainOut[i] \notin ControlChars \cup BracketChars

\* C5 witness: a well-formed input with a span was rendered, and the markers
\* are gone.
C5_Witness ==
    /\ plainOut # Unset
    /\ WellFormed(segs)
    /\ \E i \in 1..Len(segs) : segs[i] \in SpanPieces
    /\ \E i \in 1..Len(segs) : segs[i] = <<"a">>
    /\ \A i \in 1..Len(plainOut) : plainOut[i] = "a"

Entities == {Amp, Lt, Gt, Quot, Apos}

Tags ==
    {SpanLinkOpen, SpanClose, CodeOpen, CodeClose, StrongOpen, StrongClose,
     EmOpen, EmClose, DelOpen, DelClose}

\* C4: in the HTML output every '&' starts one of the five entities and every
\* '<' starts one of the tags the rules inject; the escaping ran once (an
\* input without '&' gives no "&amp;").
C4_HtmlEscaped ==
    LET raw == Flatten(segs)
    IN  htmlOut # Unset =>
            /\ \A i \in 1..Len(htmlOut) :
                   htmlOut[i] = "&" => \E e \in Entities : HasAt(htmlOut, i, e)
            /\ \A i \in 1..Len(htmlOut) :
                   htmlOut[i] = "<" => \E t \in Tags : HasAt(htmlOut, i, t)
            /\ (\A k \in 1..Len(raw) : raw[k] # "&")
                   => \A i \in 1..Len(htmlOut) : ~HasAt(htmlOut, i, Amp)

\* C4 witness: a link whose label holds '<' was rendered next to a raw '&':
\* the output holds the link tag, "&lt;" and "&amp;".
C4_Witness ==
    /\ htmlOut # Unset
    /\ \E i \in 1..Len(htmlOut) : HasAt(htmlOut, i, SpanLinkOpen \o Lt \o SpanClose)
    /\ \E i \in 1..Len(htmlOut) : HasAt(htmlOut, i, Amp)

===========================================================================
